---- MODULE Spec2Model ----
(***************************************************************************)
(* Prediction orchestration pipeline of the lung-cancer detection backend. *)
(*                                                                         *)
(* State: the record store (patients, models, predictions,                 *)
(* explainability_artifacts, audit_logs) and, per request, the position    *)
(* and the local variables of PredictionService.run_prediction.  Every     *)
(* db.commit() of the code is one step, so that what another request (or   *)
(* a reader) can observe between two commits is a state of the model.      *)
(*                                                                         *)
(* Probabilities and confidences are hundredths (85 is 0.85).  The clock   *)
(* counts hours; of the wall-clock values only expires_at is kept, which   *)
(* the expiry sweep reads (created_at and inference_time_ms are read by no *)
(* branch).                                                                *)
(***************************************************************************)
EXTENDS Integers, Sequences, FiniteSets, TLC

\* ------------------------------------------------------------------ bounds
NumRuns == 1
MaxFaults == 1
\* The last hour the clock reaches.
MaxNow == 25
\* Threads using the model registry, and the calls they make in all.
NumThreads == 2
MaxCalls == 3
\* The last second the clock of the scoring calls reaches.
MaxSeconds == 8
\* Concurrent callers of get_or_create_patient, each on a session of its own.
Callers == 2
\* Worker processes serving requests.  The endpoint (api/predict.py) is a
\* coroutine that calls run_prediction without awaiting, so one process runs
\* one pipeline at a time; pipelines overlap only across processes.
Workers == 1

Runs == 1..NumRuns

\* expires_in_hours as run_prediction passes it (line 242).
ExpiresInHours == 24

\* InferenceEngine.MAX_INFERENCE_TIME, in seconds.
MAX_INFERENCE_TIME == 5

\* Python's None, for enum/string valued and for numeric valued variables.
Null == "None"
NoneNum == -1

\* ------------------------------------------------------------------ enums
PredictionStatus == {"SUCCESS", "INCONCLUSIVE", "MODEL_ERROR", "INPUT_INVALID"}
BinaryResult == {"BENIGN", "MALIGNANT"}
StageResult == {"LOW", "MEDIUM", "HIGH"}
RiskLevel == {"LOW", "MEDIUM", "HIGH", "INCONCLUSIVE"}
ModelType == {"cnn_rnn", "vit"}
ExplainabilityType == {"gradcam", "attention", "none"}
ArtifactType == {"gradcam", "attention"}

\* ------------------------------------------------------------- environment
\* external_ref values and model_type strings a request can carry.
ExternalRefs == {"ref_a", "ref_b"}
ModelTypeArgs == {"cnn_rnn", "vit"}

\* The scorer, the validator and the explainability generators are stubs in
\* the repository (predict_binary returns 0.85, validate_image_file returns
\* True, the generators return a fixed path); the pipeline branches on what
\* they return or raise, so each is a choice of the environment here.
\* Probabilities the binary scorer can return: BENIGN below the 0.7 gate,
\* MALIGNANT below it, MALIGNANT above it.
Probs == {30, 60, 85}

\* The texts of the InferenceError predict_binary can raise, word by word:
\* that of _check_timeout, and the text of an exception of the scoring model
\* wrapped at inference_engine line 32 (here str(KeyError('image_data'))).
InferenceErrors == { <<"Inference timed out">>,
                     <<"Binary inference failed: ", "image_data">> }

\* PrivacyGuard.sanitize_log_data, line 13
sensitive_keys == {"file_bytes", "image_data", "patient_name"}

\* Rows of the models table, in creation order (id = position).
SeedCnnRnn == [model_type |-> "cnn_rnn", supports_stage |-> TRUE,
               supports_explainability |-> TRUE, explainability_type |-> "gradcam"]
SeedVit == [model_type |-> "vit", supports_stage |-> TRUE,
            supports_explainability |-> TRUE, explainability_type |-> "attention"]
PlainCnnRnn == [model_type |-> "cnn_rnn", supports_stage |-> FALSE,
                supports_explainability |-> FALSE, explainability_type |-> "none"]
OddVit == [model_type |-> "vit", supports_stage |-> TRUE,
           supports_explainability |-> TRUE, explainability_type |-> "none"]

\* Registries the service can run against: tables created but never seeded
\* (main.py), the seed of init_db, and a registry whose newest rows switch
\* the capability flags off.
Registries == { <<>>, <<SeedCnnRnn, SeedVit>>, <<SeedCnnRnn, PlainCnnRnn, OddVit>> }

VARIABLES
    patients,                   \* table patients: sequence of rows
    models,                     \* table models: sequence of rows
    predictions,                \* table predictions
    explainability_artifacts,   \* table explainability_artifacts
    audit_logs,                 \* table audit_logs
    runs,                       \* per request: position and locals of run_prediction
    faults,                     \* faults injected into the requests so far
    call,                       \* argument/result cell of the last direct call
    now,                        \* the last reading of the clock, in hours
    swept,                      \* what the last delete_expired_artifacts returned
    registry,                   \* the ModelRegistry singleton: its models and its lock
    threads                     \* per thread: position and locals of its registry call

vars == <<patients, models, predictions, explainability_artifacts, audit_logs,
          runs, faults, call, now, swept, registry, threads>>

store == <<patients, models, predictions, explainability_artifacts, audit_logs>>

\* ---------------------------------------------------------- pure functions

\* calculate_risk with the confidence floor itself counted as too low
calculate_risk_floor_inclusive(probability) ==
    IF probability <= 40 THEN "Inconclusive"
    ELSE IF probability < 30 THEN "Low Risk"
    ELSE IF probability < 70 THEN "Medium Risk"
    ELSE "High Risk"

\* RiskEngine.calculate_risk
calculate_risk(probability) ==
    IF probability < 40 THEN "Inconclusive"
    ELSE IF probability < 30 THEN "Low Risk"
    ELSE IF probability < 70 THEN "Medium Risk"
    ELSE "High Risk"

\* _derive_risk_level with the 0.5 split of the binary label used as the gate.
derive_risk_level_gate_at_split(binary_result, binary_confidence, stage_result) ==
    IF binary_confidence = NoneNum \/ binary_confidence < 50 THEN "INCONCLUSIVE"
    ELSE IF stage_result = "HIGH" THEN "HIGH"
    ELSE IF stage_result = "MEDIUM" THEN "MEDIUM"
    ELSE IF stage_result = "LOW" THEN "LOW"
    ELSE IF binary_result = "MALIGNANT"
         THEN (IF binary_confidence >= 85 THEN "HIGH" ELSE "MEDIUM")
    ELSE IF binary_result = "BENIGN" THEN "LOW"
    ELSE "INCONCLUSIVE"

\* _derive_risk_level with the binary mapping tried before the stage result.
derive_risk_level_binary_first(binary_result, binary_confidence, stage_result) ==
    IF binary_confidence = NoneNum \/ binary_confidence < 70 THEN "INCONCLUSIVE"
    ELSE IF binary_result = "MALIGNANT"
         THEN (IF binary_confidence >= 85 THEN "HIGH" ELSE "MEDIUM")
    ELSE IF binary_result = "BENIGN" THEN "LOW"
    ELSE IF stage_result = "HIGH" THEN "HIGH"
    ELSE IF stage_result = "MEDIUM" THEN "MEDIUM"
    ELSE IF stage_result = "LOW" THEN "LOW"
    ELSE "INCONCLUSIVE"

\* PredictionService._derive_risk_level
derive_risk_level(binary_result, binary_confidence, stage_result) ==
    IF binary_confidence = NoneNum \/ binary_confidence < 70 THEN "INCONCLUSIVE"
    ELSE IF stage_result = "HIGH" THEN "HIGH"
    ELSE IF stage_result = "MEDIUM" THEN "MEDIUM"
    ELSE IF stage_result = "LOW" THEN "LOW"
    ELSE IF binary_result = "MALIGNANT"
         THEN (IF binary_confidence >= 85 THEN "HIGH" ELSE "MEDIUM")
    ELSE IF binary_result = "BENIGN" THEN "LOW"
    ELSE "INCONCLUSIVE"

\* InferenceEngine.predict_binary, line 21: the registry accessor the binary
\* scoring takes its model from, whatever the request.
predict_binary_model == "cnn_rnn_model"

\* the binary label split above the confidence gate
binary_label_split_above_gate(binary_prob) ==
    IF binary_prob >= 90 THEN "MALIGNANT" ELSE "BENIGN"

\* run_prediction, lines 112-115: the binary label of a probability.
binary_label(binary_prob) ==
    IF binary_prob >= 50 THEN "MALIGNANT" ELSE "BENIGN"

\* run_prediction, lines 137-150: the stage result and its confidence.  The
\* strings compared against are not the strings calculate_risk returns.
stage_step(supports_stage, binary_prob) ==
    IF ~supports_stage THEN [stage_result |-> Null, stage_confidence |-> NoneNum]
    ELSE LET stage_info == calculate_risk(binary_prob) IN
         IF stage_info = "High"
         THEN [stage_result |-> "HIGH", stage_confidence |-> binary_prob]
         ELSE IF stage_info = "Medium"
         THEN [stage_result |-> "MEDIUM", stage_confidence |-> (binary_prob * 8) \div 10]
         ELSE IF stage_info = "Low"
         THEN [stage_result |-> "LOW", stage_confidence |-> 100 - binary_prob]
         ELSE [stage_result |-> Null, stage_confidence |-> NoneNum]

\* run_prediction, line 87
model_type_enum(model_type) ==
    IF model_type = "cnn_rnn" THEN "cnn_rnn" ELSE "vit"

\* the lookup finding nothing
get_patient_by_external_ref_miss(external_ref) == 0

\* crud.get_patient_by_external_ref: id of the first row with that ref, 0 if none.
get_patient_by_external_ref(external_ref) ==
    LET hits == {i \in 1..Len(patients) : patients[i].external_ref = external_ref}
    IN IF hits = {} THEN 0 ELSE CHOOSE i \in hits : \A j \in hits : i <= j

\* crud.get_active_model: the newest row of the type, 0 if none.
get_active_model(mtype) ==
    LET hits == {i \in 1..Len(models) : models[i].model_type = mtype}
    IN IF hits = {} THEN 0 ELSE CHOOSE i \in hits : \A j \in hits : i >= j

\* ------------------------------------------------------------------- rows

\* models.Prediction as built by crud.create_prediction
PredictionRow(id, l) ==
    [id |-> id, patient_id |-> l.patient, model_id |-> l.model,
     prediction_status |-> l.prediction_status,
     binary_result |-> l.binary_result, binary_confidence |-> l.binary_confidence,
     stage_result |-> l.stage_result, stage_confidence |-> l.stage_confidence,
     risk_level |-> l.risk_level]

\* models.AuditLog as built by crud.create_audit_log
AuditRow(id, event_type, reference_id, reference_type, message) ==
    [id |-> id, event_type |-> event_type, reference_id |-> reference_id,
     reference_type |-> reference_type, message |-> message]

\* the INFERENCE_FAILED entry written without its reference_id
InferenceFailedAuditUnreferenced(id, model_id, e) ==
    AuditRow(id, "INFERENCE_FAILED", 0, "model", <<"Binary inference failed: ">> \o e)

\* the audit entry of run_prediction's inner except handler, lines 125-131
InferenceFailedAudit(id, model_id, e) ==
    AuditRow(id, "INFERENCE_FAILED", model_id, "model", <<"Binary inference failed: ">> \o e)

\* the audit entry of crud.create_prediction, lines 131-137
PredictionCreatedAudit(id, prediction_id, risk_level) ==
    AuditRow(id, "PREDICTION_CREATED", prediction_id, "prediction",
             <<"Prediction created: ", risk_level, " risk">>)

\* models.ExplainabilityArtifact as built by crud.create_explainability_artifact
\* at hour created
ArtifactRow(id, prediction_id, artifact_type, artifact_ref, expires_in_hours, created) ==
    [id |-> id, prediction_id |-> prediction_id, artifact_type |-> artifact_type,
     artifact_ref |-> artifact_ref, expires_at |-> created + expires_in_hours]

\* the artifact kind taken to be gradcam whatever the model's method
artifact_type_of_always_gradcam(explainability_type) == "gradcam"

\* run_prediction, lines 231-235
artifact_type_of(explainability_type) ==
    IF explainability_type = "gradcam" THEN "gradcam" ELSE "attention"

\* ------------------------------------------------------------- run locals

\* A request that has not started.
IdleRun ==
    [pc |-> "idle", external_ref |-> Null, model_type |-> Null,
     prediction_status |-> Null, binary_result |-> Null, binary_confidence |-> NoneNum,
     stage_result |-> Null, stage_confidence |-> NoneNum, risk_level |-> Null,
     explainability_ref |-> Null, patient |-> 0, model |-> 0, prediction |-> 0,
     exc |-> Null, pending_rollback |-> FALSE, outcome |-> Null,
     events |-> {}, wrote |-> {}]

\* the locals at entry with risk_level left None
EntryLocalsRiskUnset(external_ref, model_type) ==
    [IdleRun EXCEPT !.pc = "entered", !.external_ref = external_ref,
                    !.model_type = model_type,
                    !.prediction_status = "SUCCESS"]

\* run_prediction, lines 66-75: the locals at entry.
EntryLocals(external_ref, model_type) ==
    [IdleRun EXCEPT !.pc = "entered", !.external_ref = external_ref,
                    !.model_type = model_type,
                    !.prediction_status = "SUCCESS", !.risk_level = "INCONCLUSIVE"]

\* the persistence step without its guard
should_persist_always(prediction_status) == TRUE

\* run_prediction, line 210: the guard of the persistence step.
should_persist(prediction_status) == prediction_status # "INPUT_INVALID"

\* run_prediction, lines 194-197: the outer handler's status.
outer_except_status(prediction_status) ==
    IF prediction_status = "SUCCESS" THEN "MODEL_ERROR" ELSE prediction_status

\* What is left of a run once run_prediction is over: how it ended, what it
\* returned, the ids it resolved, and the history of the run.
Ended(l, outcome) ==
    [IdleRun EXCEPT !.pc = "done", !.outcome = outcome,
                    !.external_ref = l.external_ref, !.model_type = l.model_type,
                    !.patient = l.patient, !.model = l.model,
                    !.prediction = l.prediction,
                    !.explainability_ref = IF outcome = "returned" THEN l.explainability_ref ELSE Null,
                    !.events = l.events, !.wrote = l.wrote]

Set(r, l) == runs' = [runs EXCEPT ![r] = l]


\* A fault is injected: db.commit() fails, or the stage step raises.
CanFault == faults < MaxFaults

NoFault == faults' = faults

Fault == faults' = faults + 1

\* --------------------------------------------------------- model registry

Threads == 1..NumThreads

\* The functions of ModelRegistry a thread can call.
RegistryOps == {"cnn_rnn_model", "vit_model", "load_models", "reload_models"}

\* ModelRegistry at import, lines 23-26: no model, the lock free.  A model
\* instance is the number of its construction, None is NoneNum; lock is the
\* thread holding _lock, 0 if none.  built counts the executions of the
\* loading body, failed holds the instances whose loading raised, calls and
\* reloads count the calls made.
UnloadedRegistry ==
    [cnn_rnn_model |-> NoneNum, vit_model |-> NoneNum, lock |-> 0,
     built |-> 0, failed |-> {}, calls |-> 0, reloads |-> 0]

\* A thread outside the registry.  after_failure and after_load tell whether,
\* when the call began, a load had failed or the models were loaded.
IdleThread ==
    [pc |-> "idle", op |-> Null, ret |-> NoneNum,
     after_failure |-> FALSE, after_load |-> FALSE]

\* ---------------------------------------------------------------- actions

\* What datetime.utcnow() can return: the time of the last reading, or a day
\* and an hour later.
utcnow ==
    {now} \cup {t \in {now + ExpiresInHours + 1} : t <= MaxNow}

\* The harness cell when no call is made.
IdleCall ==
    [args |-> [binary_result |-> Null, binary_confidence |-> NoneNum, stage_result |-> Null],
     ret |-> Null]

\* Init: an empty store but for the registry; no request has started.
Init ==
    /\ patients = <<>>
    /\ models \in Registries
    /\ predictions = <<>>
    /\ explainability_artifacts = <<>>
    /\ audit_logs = <<>>
    /\ runs = [r \in Runs |-> IdleRun]
    /\ faults = 0
    /\ now = 0
    /\ swept = NoneNum
    /\ registry = UnloadedRegistry
    /\ threads = [t \in Threads |-> IdleThread]
    /\ call = IdleCall

\* The in-flight exception passes the outer handlers (lines 189-199).
Raise(l, exc, event) ==
    [l EXCEPT !.exc = exc,
              !.prediction_status = IF exc = "InvalidImageError" THEN @
                                    ELSE outer_except_status(@),
              !.events = @ \cup {event}]

\* the finally block persisting nothing while an exception is in flight
EnterFinally_skips_on_exception(l) ==
    IF ~should_persist(l.prediction_status) \/ l.exc # Null THEN Ended(l, l.exc)
    ELSE IF l.patient = 0 THEN Ended(l, "UnboundLocalError")
    ELSE IF l.model = 0 THEN Ended(l, "AttributeError")
    ELSE [l EXCEPT !.pc = "finally"]

\* The finally block up to the first write, lines 201-215: nothing is saved
\* for INPUT_INVALID and the exception in flight goes on to the caller;
\* otherwise patient.id and model.id are evaluated, and an unbound patient
\* or a model that is None raises inside the try of line 211, which is
\* caught at line 249 (rollback, raise).
EnterFinally(l) ==
    IF ~should_persist(l.prediction_status) THEN Ended(l, l.exc)
    ELSE IF l.patient = 0 THEN Ended(l, "UnboundLocalError")
    ELSE IF l.model = 0 THEN Ended(l, "AttributeError")
    ELSE [l EXCEPT !.pc = "finally"]

\* The requests being served.
InFlight == {q \in Runs : runs[q].pc \notin {"idle", "done"}}

\* A request enters run_prediction (lines 66-75) on a free worker and
\* get_or_create_patient looks the patient up (crud line 40).  Requests are
\* numbered in the order they arrive.
GetPatient(r) ==
    /\ runs[r].pc = "idle"
    /\ IF r = 1 THEN TRUE ELSE runs[r - 1].pc # "idle"
    /\ Cardinality(InFlight) < Workers
    /\ \E external_ref \in ExternalRefs, model_type \in ModelTypeArgs :
          LET l == EntryLocals(external_ref, model_type)
              found == get_patient_by_external_ref(external_ref)
          IN IF found # 0
             THEN Set(r, [l EXCEPT !.pc = "infer", !.patient = found])
             ELSE Set(r, [l EXCEPT !.pc = "add_patient"])
    /\ UNCHANGED <<store, faults, call, now, swept, registry, threads>>

\* STEP 1, crud.get_or_create_patient, lines 43-46: insert and commit.  The
\* unique index on external_ref rejects a second row for the same ref.
AddPatient(r) ==
    LET l == runs[r] IN
    /\ l.pc = "add_patient"
    /\ \/ /\ get_patient_by_external_ref(l.external_ref) = 0
          /\ patients' = Append(patients, [id |-> Len(patients) + 1,
                                           external_ref |-> l.external_ref])
          /\ Set(r, [l EXCEPT !.pc = "infer", !.patient = Len(patients) + 1,
                              !.wrote = @ \cup {"patients"}])
          /\ NoFault
       \/ /\ get_patient_by_external_ref(l.external_ref) # 0
          /\ Set(r, EnterFinally(Raise(l, "IntegrityError", "integrity")))
          /\ UNCHANGED patients
          /\ NoFault
       \/ /\ CanFault
          /\ Set(r, EnterFinally(Raise(l, "StoreError", "fault_patient")))
          /\ UNCHANGED patients
          /\ Fault
    /\ UNCHANGED <<models, predictions, explainability_artifacts, audit_logs, call, now, swept, registry, threads>>

\* the handler of a failed stage step marking the run as a model error
stage_except_changes_status(l) ==
    [l EXCEPT !.events = @ \cup {"stage_failed"}, !.prediction_status = "MODEL_ERROR"]

\* STEP 5, lines 154-156: an exception of the stage step is caught and
\* logged; stage_result and stage_confidence keep their None.
stage_except(l) ==
    [l EXCEPT !.events = @ \cup {"stage_failed"}]

\* the scoring steps with the status left as it was at entry
Scored_status_kept(l, binary_prob, stage_raises) ==
    LET binary_result == binary_label(binary_prob)
        supports_stage == models[l.model].supports_stage
        stage == IF supports_stage /\ stage_raises
                 THEN [stage_result |-> Null, stage_confidence |-> NoneNum]
                 ELSE stage_step(supports_stage, binary_prob)
        l5 == IF supports_stage /\ stage_raises THEN stage_except(l) ELSE l
        risk_level == derive_risk_level(binary_result, binary_prob, stage.stage_result)
    IN [l5 EXCEPT !.binary_result = binary_result,
                  !.binary_confidence = binary_prob,
                  !.stage_result = stage.stage_result,
                  !.stage_confidence = stage.stage_confidence,
                  !.risk_level = risk_level]

\* STEPS 4-6 after a successful predict_binary, lines 109-170: binary
\* result, stage result (the stage step returns or raises), derived risk
\* level and status.
Scored(l, binary_prob, stage_raises) ==
    LET binary_result == binary_label(binary_prob)
        supports_stage == models[l.model].supports_stage
        stage == IF supports_stage /\ stage_raises
                 THEN [stage_result |-> Null, stage_confidence |-> NoneNum]
                 ELSE stage_step(supports_stage, binary_prob)
        l5 == IF supports_stage /\ stage_raises THEN stage_except(l) ELSE l
        risk_level == derive_risk_level(binary_result, binary_prob, stage.stage_result)
    IN [l5 EXCEPT !.binary_result = binary_result,
                  !.binary_confidence = binary_prob,
                  !.stage_result = stage.stage_result,
                  !.stage_confidence = stage.stage_confidence,
                  !.risk_level = risk_level,
                  !.prediction_status = IF risk_level = "INCONCLUSIVE"
                                        THEN "INCONCLUSIVE" ELSE @]

\* STEP 7 with a failed generation marking the run as a model error
Explained_failure_changes_status(l, generated) ==
    LET model == models[l.model] IN
    IF ~model.supports_explainability \/ model.explainability_type = "none" THEN l
    ELSE IF ~generated THEN [l EXCEPT !.events = @ \cup {"explain_failed"},
                                      !.prediction_status = "MODEL_ERROR"]
    ELSE [l EXCEPT !.explainability_ref =
                       IF model.explainability_type = "gradcam"
                       THEN "static/explainability/heatmap_mock.png"
                       ELSE "static/explainability/attention_mock.png"]

\* STEP 7, lines 176-187: best-effort explainability.  The generator returns
\* a reference (generated = TRUE) or raises, which is caught and leaves
\* explainability_ref unset.
Explained(l, generated) ==
    LET model == models[l.model] IN
    IF ~model.supports_explainability \/ model.explainability_type = "none" THEN l
    ELSE IF ~generated THEN [l EXCEPT !.events = @ \cup {"explain_failed"}]
    ELSE [l EXCEPT !.explainability_ref =
                       IF model.explainability_type = "gradcam"
                       THEN "static/explainability/heatmap_mock.png"
                       ELSE "static/explainability/attention_mock.png"]

\* STEPS 2-7, lines 87-187, which write nothing but the audit entry of a
\* failed scoring: the active model is resolved, image.validate_image_file
\* accepts or rejects, inference_engine.predict_binary returns a probability
\* or raises InferenceError, the stage step returns or (a fault injected)
\* raises, the risk level is derived and the explainability reference
\* generated.
Infer(r) ==
    LET l == runs[r]
        model == get_active_model(model_type_enum(l.model_type))
    IN /\ l.pc = "infer"
       /\ IF model = 0
          THEN Set(r, EnterFinally(Raise(l, "InferenceError", "no_model"))) /\ NoFault
          ELSE LET l1 == [l EXCEPT !.model = model] IN
               \/ /\ Set(r, EnterFinally(Raise([l1 EXCEPT !.prediction_status = "INPUT_INVALID"],
                                               "InvalidImageError", "rejected")))
                  /\ NoFault
               \/ /\ \E binary_prob \in Probs, generated \in BOOLEAN :
                        Set(r, EnterFinally(Explained(Scored(l1, binary_prob, FALSE),
                                                      generated)))
                  /\ NoFault
               \/ /\ CanFault
                  /\ models[model].supports_stage
                  /\ \E binary_prob \in Probs, generated \in BOOLEAN :
                        Set(r, EnterFinally(Explained(Scored(l1, binary_prob, TRUE),
                                                      generated)))
                  /\ Fault
               \/ /\ \E e \in InferenceErrors :
                        Set(r, [l1 EXCEPT !.pc = "audit_failed", !.exc = e,
                                          !.prediction_status = "MODEL_ERROR",
                                          !.events = @ \cup {"score_failed"}])
                  /\ NoFault
       /\ UNCHANGED <<store, call, now, swept, registry, threads>>

\* STEP 4, lines 125-132: the INFERENCE_FAILED audit entry is committed and
\* the scoring error is raised again.  If the commit fails, the store error
\* replaces the scoring error and the session is left to be rolled back.
AuditFailed(r) ==
    LET l == runs[r] IN
    /\ l.pc = "audit_failed"
    /\ \/ /\ audit_logs' = Append(audit_logs,
                                  InferenceFailedAudit(Len(audit_logs) + 1, l.model, l.exc))
          /\ Set(r, EnterFinally([Raise(l, "InferenceError", "score_failed")
                                    EXCEPT !.wrote = @ \cup {"audit_logs"}]))
          /\ NoFault
       \/ /\ CanFault
          /\ Set(r, EnterFinally([Raise(l, "StoreError", "fault_audit_failed")
                                    EXCEPT !.pending_rollback = TRUE]))
          /\ UNCHANGED audit_logs
          /\ Fault
    /\ UNCHANGED <<patients, models, predictions, explainability_artifacts, call, now, swept, registry, threads>>

\* STEP 9, lines 210-223 and crud.create_prediction lines 114-128: the
\* Prediction row is committed.  A session left in a failed state by an
\* earlier commit may refuse the write.  Any exception is caught at line
\* 249: rollback, raise.
SavePrediction(r) ==
    LET l == runs[r] IN
    /\ l.pc = "finally"
    /\ \/ /\ predictions' = Append(predictions, PredictionRow(Len(predictions) + 1, l))
          /\ Set(r, [l EXCEPT !.pc = "audit_created",
                              !.prediction = Len(predictions) + 1,
                              !.pending_rollback = FALSE,
                              !.wrote = @ \cup {"predictions"}])
          /\ NoFault
       \/ /\ l.pending_rollback
          /\ Set(r, Ended(l, "StoreError"))
          /\ UNCHANGED predictions
          /\ NoFault
       \/ /\ CanFault
          /\ Set(r, Ended([l EXCEPT !.events = @ \cup {"fault_prediction"}], "StoreError"))
          /\ UNCHANGED predictions
          /\ Fault
    /\ UNCHANGED <<patients, models, explainability_artifacts, audit_logs, call, now, swept, registry, threads>>

\* crud.create_prediction, lines 131-139, then run_prediction lines 230 and
\* 247: the PREDICTION_CREATED audit entry is committed in a transaction of
\* its own; without an artifact to save, the return statement of the
\* finally block ends the call, whatever exception was in flight.
AuditCreated(r) ==
    LET l == runs[r] IN
    /\ l.pc = "audit_created"
    /\ \/ /\ audit_logs' = Append(audit_logs,
                 PredictionCreatedAudit(Len(audit_logs) + 1, l.prediction, l.risk_level))
          /\ LET l2 == [l EXCEPT !.wrote = @ \cup {"audit_logs"}] IN
             IF l.explainability_ref # Null /\ models[l.model].supports_explainability
             THEN Set(r, [l2 EXCEPT !.pc = "save_artifact"])
             ELSE Set(r, Ended(l2, "returned"))
          /\ NoFault
       \/ /\ CanFault
          /\ Set(r, Ended([l EXCEPT !.events = @ \cup {"fault_audit_created"}], "StoreError"))
          /\ UNCHANGED audit_logs
          /\ Fault
    /\ UNCHANGED <<patients, models, predictions, explainability_artifacts, call, now, swept, registry, threads>>

\* The id of the next artifact row: AUTO_INCREMENT gives no id twice, so it is
\* one more than the number of rows ever inserted, deleted ones included.
next_artifact_id ==
    1 + Cardinality({q \in Runs : "explainability_artifacts" \in runs[q].wrote})

\* STEP 10, lines 230-247 and crud.create_explainability_artifact: the
\* artifact row is committed, then the finally block returns.
SaveArtifact(r) ==
    LET l == runs[r] IN
    /\ l.pc = "save_artifact"
    /\ \E t \in utcnow :
          /\ now' = t
          /\ \/ /\ explainability_artifacts' = Append(explainability_artifacts,
                       ArtifactRow(next_artifact_id, l.prediction,
                                   artifact_type_of(models[l.model].explainability_type),
                                   l.explainability_ref, ExpiresInHours, t))
                /\ Set(r, Ended([l EXCEPT !.wrote = @ \cup {"explainability_artifacts"}],
                                "returned"))
                /\ NoFault
             \/ /\ CanFault
                /\ Set(r, Ended([l EXCEPT !.events = @ \cup {"fault_artifact"}], "StoreError"))
                /\ UNCHANGED explainability_artifacts
                /\ Fault
    /\ UNCHANGED <<patients, models, predictions, audit_logs, call, swept, registry, threads>>

\* the sweep deleting, with an expired artifact, the Prediction it belongs to
predictions_after_sweep_cascading(t) ==
    SelectSeq(predictions,
              LAMBDA p : ~\E i \in 1..Len(explainability_artifacts) :
                             /\ explainability_artifacts[i].prediction_id = p.id
                             /\ explainability_artifacts[i].expires_at < t)

\* crud.delete_expired_artifacts, lines 240-241: db.delete is called on the
\* artifact rows only, and nothing cascades from an artifact to its
\* Prediction (models.py line 237).
predictions_after_sweep(t) == predictions

\* the filter of the sweep taking the expiry instant itself as expired
is_expired_or_expiring(artifact, t) == artifact.expires_at <= t

\* crud.delete_expired_artifacts, line 235: the filter of the sweep.
is_expired(artifact, t) == artifact.expires_at < t

\* crud.delete_expired_artifacts, lines 227-245: the clock is read, the rows
\* the filter selects are deleted in one commit and their number is
\* returned; a failed commit deletes nothing and raises.
DeleteExpiredArtifacts ==
    \E t \in utcnow :
        LET expired == {i \in 1..Len(explainability_artifacts) :
                            is_expired(explainability_artifacts[i], t)}
            count == Cardinality(expired)
        IN /\ now' = t
           /\ \/ /\ explainability_artifacts' =
                       SelectSeq(explainability_artifacts, LAMBDA x : ~is_expired(x, t))
                 /\ swept' = count
              \/ /\ UNCHANGED explainability_artifacts
                 /\ swept' = NoneNum
           /\ predictions' = predictions_after_sweep(t)
           /\ UNCHANGED <<patients, models, audit_logs, runs, faults, call, registry, threads>>

\* PredictionService.get_patient_predictions, lines 296-307: the patient is
\* looked up and the patient's predictions are listed.
get_patient_predictions(external_ref) ==
    LET patient == get_patient_by_external_ref(external_ref)
    IN IF patient = 0 THEN <<>>
       ELSE SelectSeq(predictions, LAMBDA p : p.patient_id = patient)

\* A reporting read (get_patient_predictions, get_prediction_statistics):
\* queries only, the answer goes to the caller and no row is written.
ReportingRead ==
    /\ \E external_ref \in ExternalRefs :
          Len(get_patient_predictions(external_ref)) <= Len(predictions)
    /\ UNCHANGED vars

Next ==
    \/ \E r \in Runs :
           \/ GetPatient(r)
           \/ AddPatient(r)
           \/ Infer(r)
           \/ AuditFailed(r)
           \/ SavePrediction(r)
           \/ AuditCreated(r)
           \/ SaveArtifact(r)
    \/ DeleteExpiredArtifacts
    \/ ReportingRead

Spec == Init /\ [][Next]_vars


\* ------------------------------------------- _derive_risk_level in isolation

\* Arguments _derive_risk_level can be called with: an optional binary
\* result, an optional confidence in [0, 1], an optional stage result.
DeriveArgs ==
    [binary_result : BinaryResult \cup {Null},
     binary_confidence : {NoneNum} \cup (0..100),
     stage_result : StageResult \cup {Null}]

InitDerive ==
    /\ patients = <<>>
    /\ models = <<>>
    /\ predictions = <<>>
    /\ explainability_artifacts = <<>>
    /\ audit_logs = <<>>
    /\ runs = [r \in Runs |-> IdleRun]
    /\ faults = 0
    /\ now = 0
    /\ swept = NoneNum
    /\ registry = UnloadedRegistry
    /\ threads = [t \in Threads |-> IdleThread]
    /\ \E a \in DeriveArgs : call = [args |-> a, ret |-> Null]

\* The call returns.
DeriveReturn ==
    /\ call.ret = Null
    /\ call' = [call EXCEPT !.ret = derive_risk_level(call.args.binary_result,
                                                      call.args.binary_confidence,
                                                      call.args.stage_result)]
    /\ UNCHANGED <<store, runs, faults, now, swept, registry, threads>>

\* The next call.
DeriveAgain ==
    /\ call.ret # Null
    /\ \E a \in DeriveArgs : call' = [args |-> a, ret |-> Null]
    /\ UNCHANGED <<store, runs, faults, now, swept, registry, threads>>

NextDerive == DeriveReturn \/ DeriveAgain

SpecDerive == InitDerive /\ [][NextDerive]_vars

\* ------------------------------------------------ calculate_risk in isolation

\* Everything but the harness cell stays as constructed.
Unused ==
    /\ patients = <<>>
    /\ models = <<>>
    /\ predictions = <<>>
    /\ explainability_artifacts = <<>>
    /\ audit_logs = <<>>
    /\ runs = [r \in Runs |-> IdleRun]
    /\ faults = 0
    /\ now = 0
    /\ swept = NoneNum
    /\ registry = UnloadedRegistry
    /\ threads = [t \in Threads |-> IdleThread]

\* Probabilities 0.00 .. 1.00.
Probabilities == 0..100

InitRisk ==
    /\ Unused
    /\ \E p \in Probabilities : call = [args |-> p, ret |-> Null]

\* The call returns.
RiskReturn ==
    /\ call.ret = Null
    /\ call' = [call EXCEPT !.ret = calculate_risk(call.args)]
    /\ UNCHANGED <<store, runs, faults, now, swept, registry, threads>>

\* The next call.
RiskAgain ==
    /\ call.ret # Null
    /\ \E p \in Probabilities : call' = [args |-> p, ret |-> Null]
    /\ UNCHANGED <<store, runs, faults, now, swept, registry, threads>>

NextRisk == RiskReturn \/ RiskAgain

SpecRisk == InitRisk /\ [][NextRisk]_vars

\* ----------------------------------- get_or_create_patient, called in sequence

\* external_ref values of the callers.
PatientRefs == {"ref_a", "ref_b", "ref_c", "ref_d"}

\* The unique index on patients.external_ref (models.py line 107).
external_ref_taken(external_ref) ==
    \E i \in 1..Len(patients) : patients[i].external_ref = external_ref

\* The cell holds the last call (argument, returned id, 0 if it raised) and
\* the ids every ref has been answered with so far.
InitPatient ==
    /\ patients = <<>>
    /\ models = <<>>
    /\ predictions = <<>>
    /\ explainability_artifacts = <<>>
    /\ audit_logs = <<>>
    /\ runs = [r \in Runs |-> IdleRun]
    /\ faults = 0
    /\ now = 0
    /\ swept = NoneNum
    /\ registry = UnloadedRegistry
    /\ threads = [t \in Threads |-> IdleThread]
    /\ call = [args |-> Null, ret |-> 0, seen |-> [x \in PatientRefs |-> {}]]

\* crud.get_or_create_patient, lines 34-48, from call to return.
get_or_create_patient(external_ref) ==
    LET found == get_patient_by_external_ref(external_ref) IN
    IF found # 0
    THEN /\ call' = [args |-> external_ref, ret |-> found,
                     seen |-> [call.seen EXCEPT ![external_ref] = @ \cup {found}]]
         /\ UNCHANGED patients
    ELSE IF external_ref_taken(external_ref)
    THEN /\ call' = [call EXCEPT !.args = external_ref, !.ret = 0]
         /\ UNCHANGED patients
    ELSE /\ patients' = Append(patients, [id |-> Len(patients) + 1,
                                          external_ref |-> external_ref])
         /\ call' = [args |-> external_ref, ret |-> Len(patients) + 1,
                     seen |-> [call.seen EXCEPT ![external_ref] = @ \cup {Len(patients) + 1}]]

NextPatient ==
    /\ \E external_ref \in PatientRefs : get_or_create_patient(external_ref)
    /\ UNCHANGED <<models, predictions, explainability_artifacts, audit_logs, runs, faults, now, swept, registry, threads>>

SpecPatient == InitPatient /\ [][NextPatient]_vars

\* ------------------------------- get_or_create_patient, called concurrently
\* The cell holds, per caller, the position in get_or_create_patient, the
\* argument and the id returned (0 before the return and if it raised).

Sessions == 1..Callers

InitPatientRace ==
    /\ Unused
    /\ call = [c \in Sessions |-> [pc |-> "called", external_ref |-> Null, ret |-> 0]]

\* crud.get_or_create_patient, lines 40-42 and 48: the lookup; a row found is
\* returned.
Lookup(c) ==
    /\ call[c].pc = "called"
    /\ \E external_ref \in PatientRefs :
          LET found == get_patient_by_external_ref(external_ref) IN
          call' = [call EXCEPT ![c] =
                      IF found # 0
                      THEN [pc |-> "returned", external_ref |-> external_ref, ret |-> found]
                      ELSE [pc |-> "insert", external_ref |-> external_ref, ret |-> 0]]
    /\ UNCHANGED <<store, runs, faults, now, swept, registry, threads>>

\* crud.get_or_create_patient, lines 43-48: insert, commit, refresh, return.
\* The unique index rejects the row if the ref has been committed since the
\* lookup, and the commit raises IntegrityError.
InsertPatient(c) ==
    /\ call[c].pc = "insert"
    /\ IF external_ref_taken(call[c].external_ref)
       THEN /\ call' = [call EXCEPT ![c].pc = "raised"]
            /\ UNCHANGED patients
       ELSE /\ patients' = Append(patients, [id |-> Len(patients) + 1,
                                             external_ref |-> call[c].external_ref])
            /\ call' = [call EXCEPT ![c].pc = "returned", ![c].ret = Len(patients) + 1]
    /\ UNCHANGED <<models, predictions, explainability_artifacts, audit_logs,
                   runs, faults, now, swept, registry, threads>>

NextPatientRace == \E c \in Sessions : Lookup(c) \/ InsertPatient(c)

SpecPatientRace == InitPatientRace /\ [][NextPatientRace]_vars

\* --------------------------------- delete_expired_artifacts on a filled table

\* Artifacts of earlier successful runs the sweep can find.
SweepRows == 2

\* The hours the artifacts were created at and the sweep runs at.
SweepHours == 0..(ExpiresInHours + ExpiresInHours \div 2)

\* A Prediction of a completed cnn_rnn run of the seeded registry.
SweptPrediction(id) ==
    PredictionRow(id, [Scored([EntryLocals("ref_a", "cnn_rnn") EXCEPT !.patient = 1, !.model = 1],
                              85, FALSE)
                          EXCEPT !.prediction_status = "SUCCESS"])

\* The store after SweepRows completed runs, each with its artifact, created
\* at hours that do not decrease; the sweep runs at or after the last one.
InitSweep ==
    /\ patients = <<[id |-> 1, external_ref |-> "ref_a"]>>
    /\ models = <<SeedCnnRnn, SeedVit>>
    /\ predictions = [i \in 1..SweepRows |-> SweptPrediction(i)]
    /\ audit_logs = [i \in 1..SweepRows |-> PredictionCreatedAudit(i, i, "HIGH")]
    /\ now \in SweepHours
    /\ \E created \in [1..SweepRows -> SweepHours] :
          /\ \A i \in 1..SweepRows : created[i] <= now
          /\ \A i \in 1..SweepRows, j \in 1..SweepRows : i <= j => created[i] <= created[j]
          /\ explainability_artifacts =
                [i \in 1..SweepRows |->
                    [id |-> i, prediction_id |-> i, artifact_type |-> "gradcam",
                     artifact_ref |-> "static/explainability/heatmap_mock.png",
                     expires_at |-> created[i] + ExpiresInHours]]
    /\ runs = [r \in Runs |-> IdleRun]
    /\ faults = 0
    /\ call = IdleCall
    /\ swept = NoneNum
    /\ registry = UnloadedRegistry
    /\ threads = [t \in Threads |-> IdleThread]

NextSweep == DeleteExpiredArtifacts

SpecSweep == InitSweep /\ [][NextSweep]_vars

\* ------------------------------------------- ModelRegistry used by threads
\* TripleHybrid is taken as imported (ml_train/models/cnn_rnn.py is in the
\* repository).  One step is one read or write of a field of the registry,
\* or one acquisition of its lock.

Accessors == {"cnn_rnn_model", "vit_model"}

InitRegistry ==
    /\ Unused
    /\ call = IdleCall

SetThread(t, th) == threads' = [threads EXCEPT ![t] = th]

\* The field an accessor reads.
field_of(op) ==
    IF op = "cnn_rnn_model" THEN registry.cnn_rnn_model ELSE registry.vit_model

\* Where a call begins.
entry_of(op) ==
    IF op \in Accessors THEN "acc_check"
    ELSE IF op = "load_models" THEN "load_check"
    ELSE "reload_acquire"

\* A thread calls a function of the registry.
RegistryCall(t) ==
    /\ threads[t].pc \in {"idle", "returned", "raised"}
    /\ registry.calls < MaxCalls
    /\ \E op \in RegistryOps :
          /\ SetThread(t, [pc |-> entry_of(op), op |-> op, ret |-> NoneNum,
                           after_failure |-> registry.failed # {},
                           after_load |-> /\ registry.cnn_rnn_model # NoneNum
                                          /\ registry.vit_model # NoneNum])
          /\ registry' = [registry EXCEPT !.calls = @ + 1,
                                          !.reloads = IF op = "reload_models" THEN @ + 1 ELSE @]
    /\ UNCHANGED <<store, runs, faults, call, now, swept>>

\* cnn_rnn_model line 97, vit_model line 103: load if the field is None.
AccessorCheck(t) ==
    LET th == threads[t] IN
    /\ th.pc = "acc_check"
    /\ SetThread(t, [th EXCEPT !.pc = IF field_of(th.op) = NoneNum
                                      THEN "load_check" ELSE "acc_return"])
    /\ UNCHANGED <<store, runs, faults, call, now, swept, registry>>

\* cnn_rnn_model line 99, vit_model line 105: the field is read and returned.
AccessorReturn(t) ==
    LET th == threads[t] IN
    /\ th.pc = "acc_return"
    /\ SetThread(t, [th EXCEPT !.pc = "returned", !.ret = field_of(th.op)])
    /\ UNCHANGED <<store, runs, faults, call, now, swept, registry>>

\* load_models returns to its caller: an accessor goes on to read its field,
\* reload_models leaves its with block and returns.
leave_load(th) ==
    IF th.op \in Accessors THEN [th EXCEPT !.pc = "acc_return"]
    ELSE [th EXCEPT !.pc = "returned"]

\* The lock once load_models has returned to the caller th: reload_models
\* releases it at the end of its with block.
lock_after_load(th, lock) ==
    IF th.op = "reload_models" THEN 0 ELSE lock

\* load_models, lines 37-38: the check outside the lock.
LoadCheck(t) ==
    LET th == threads[t] IN
    /\ th.pc = "load_check"
    /\ IF registry.cnn_rnn_model # NoneNum
       THEN /\ SetThread(t, leave_load(th))
            /\ registry' = [registry EXCEPT !.lock = lock_after_load(th, @)]
       ELSE /\ SetThread(t, [th EXCEPT !.pc = "load_acquire"])
            /\ UNCHANGED registry
    /\ UNCHANGED <<store, runs, faults, call, now, swept>>

\* load_models, line 40: threading.Lock is not reentrant, the thread waits
\* until the lock is free, whoever holds it.
LoadAcquire(t) ==
    LET th == threads[t] IN
    /\ th.pc = "load_acquire"
    /\ registry.lock = 0
    /\ registry' = [registry EXCEPT !.lock = t]
    /\ SetThread(t, [th EXCEPT !.pc = "load_recheck"])
    /\ UNCHANGED <<store, runs, faults, call, now, swept>>

\* the check inside the lock left out
already_loaded_unchecked(model) == FALSE

\* load_models, line 42: the check inside the lock.
already_loaded(model) == model # NoneNum

\* load_models, lines 42-43: the second check; returning leaves the with
\* block, which releases the lock.
LoadRecheck(t) ==
    LET th == threads[t] IN
    /\ th.pc = "load_recheck"
    /\ IF already_loaded(registry.cnn_rnn_model)
       THEN /\ SetThread(t, leave_load(th))
            /\ registry' = [registry EXCEPT !.lock = 0]
       ELSE /\ SetThread(t, [th EXCEPT !.pc = "load_construct"])
            /\ UNCHANGED registry
    /\ UNCHANGED <<store, runs, faults, call, now, swept>>

\* load_models, lines 45-56: the model is constructed and assigned, or the
\* constructor raises, which lines 83-85 turn into ModelLoadError; leaving
\* the with block releases the lock.
LoadConstruct(t) ==
    LET th == threads[t]
        instance == registry.built + 1
    IN /\ th.pc = "load_construct"
       /\ \/ /\ registry' = [registry EXCEPT !.cnn_rnn_model = instance, !.built = instance]
             /\ SetThread(t, [th EXCEPT !.pc = "load_weights"])
          \/ /\ registry' = [registry EXCEPT !.built = instance, !.lock = 0,
                                              !.failed = @ \cup {instance}]
             /\ SetThread(t, [th EXCEPT !.pc = "raised"])
       /\ UNCHANGED <<store, runs, faults, call, now, swept>>

\* load_models, lines 61-74: the weights are loaded and the model moved to
\* its device, or one of these raises ModelLoadError (lines 83-85), which
\* leaves _cnn_rnn_model as assigned.
LoadWeights(t) ==
    LET th == threads[t] IN
    /\ th.pc = "load_weights"
    /\ \/ /\ SetThread(t, [th EXCEPT !.pc = "load_vit"])
          /\ UNCHANGED registry
       \/ /\ registry' = [registry EXCEPT !.lock = 0,
                                           !.failed = @ \cup {registry.cnn_rnn_model}]
          /\ SetThread(t, [th EXCEPT !.pc = "raised"])
    /\ UNCHANGED <<store, runs, faults, call, now, swept>>

\* load_models, line 78 and the end of the with block.
LoadVit(t) ==
    LET th == threads[t] IN
    /\ th.pc = "load_vit"
    /\ registry' = [registry EXCEPT !.vit_model = registry.cnn_rnn_model,
                                    !.lock = lock_after_load(th, 0)]
    /\ SetThread(t, leave_load(th))
    /\ UNCHANGED <<store, runs, faults, call, now, swept>>

\* reload_models, line 90
ReloadAcquire(t) ==
    LET th == threads[t] IN
    /\ th.pc = "reload_acquire"
    /\ registry.lock = 0
    /\ registry' = [registry EXCEPT !.lock = t]
    /\ SetThread(t, [th EXCEPT !.pc = "reload_clear_cnn"])
    /\ UNCHANGED <<store, runs, faults, call, now, swept>>

\* reload_models, line 91
ReloadClearCnn(t) ==
    LET th == threads[t] IN
    /\ th.pc = "reload_clear_cnn"
    /\ registry' = [registry EXCEPT !.cnn_rnn_model = NoneNum]
    /\ SetThread(t, [th EXCEPT !.pc = "reload_clear_vit"])
    /\ UNCHANGED <<store, runs, faults, call, now, swept>>

\* reload_models, lines 92-93: the second field is cleared and load_models
\* is called, the lock still held.
ReloadClearVit(t) ==
    LET th == threads[t] IN
    /\ th.pc = "reload_clear_vit"
    /\ registry' = [registry EXCEPT !.vit_model = NoneNum]
    /\ SetThread(t, [th EXCEPT !.pc = "load_check"])
    /\ UNCHANGED <<store, runs, faults, call, now, swept>>

\* A step of a thread inside a call.
ThreadStep(t) ==
    \/ AccessorCheck(t)
    \/ AccessorReturn(t)
    \/ LoadCheck(t)
    \/ LoadAcquire(t)
    \/ LoadRecheck(t)
    \/ LoadConstruct(t)
    \/ LoadWeights(t)
    \/ LoadVit(t)
    \/ ReloadAcquire(t)
    \/ ReloadClearCnn(t)
    \/ ReloadClearVit(t)

NextRegistry ==
    \E t \in Threads : RegistryCall(t) \/ ThreadStep(t)

SpecRegistry == InitRegistry /\ [][NextRegistry]_vars

\* The scheduler lets every thread that can take a step take one.
SpecRegistryLive ==
    SpecRegistry /\ \A t \in Threads : WF_vars(ThreadStep(t))

\* ------------------------------------ the scoring calls of InferenceEngine
\* The cell holds the call under way: the function, the position in it, the
\* clock (time.time(), in seconds), start_time, the elapsed time
\* _check_timeout saw (NoneNum before the check) and how the call ended.

ScoringCalls == {"predict_binary", "predict_stage"}

\* predict_binary line 19, predict_stage line 38: start_time is taken.
Called(fn, time) ==
    [fn |-> fn, pc |-> "model", time |-> time, start_time |-> time,
     elapsed |-> NoneNum, outcome |-> Null]

InitScoring ==
    /\ Unused
    /\ \E fn \in ScoringCalls : call = Called(fn, 0)

\* the check raising at the limit itself
check_timeout_at_limit(start_time, time) ==
    time - start_time >= MAX_INFERENCE_TIME

\* InferenceEngine._check_timeout, line 11: whether it raises.
check_timeout(start_time, time) ==
    time - start_time > MAX_INFERENCE_TIME

\* Time passes while the registry hands out the model (lines 21-22, 40-41).
Elapse ==
    /\ call.pc = "model"
    /\ call.time < MaxSeconds
    /\ call' = [call EXCEPT !.time = @ + 1]
    /\ UNCHANGED <<store, runs, faults, now, swept, registry, threads>>

\* Lines 21 and 30-32 (40 and 46-48): the accessor raises ModelLoadError,
\* which is wrapped in an InferenceError that is not the timeout.
ModelFails ==
    /\ call.pc = "model"
    /\ call' = [call EXCEPT !.pc = "raised", !.outcome = "inference failed"]
    /\ UNCHANGED <<store, runs, faults, now, swept, registry, threads>>

\* Lines 26-29 (43-45): _check_timeout reads the clock and raises the
\* timeout, or the result is returned.
CheckAndReturn ==
    /\ call.pc = "model"
    /\ call' = IF check_timeout(call.start_time, call.time)
               THEN [call EXCEPT !.pc = "raised", !.outcome = "Inference timed out",
                                 !.elapsed = call.time - call.start_time]
               ELSE [call EXCEPT !.pc = "returned", !.outcome = "result",
                                 !.elapsed = call.time - call.start_time]
    /\ UNCHANGED <<store, runs, faults, now, swept, registry, threads>>

\* The next call.
ScoreAgain ==
    /\ call.pc \in {"returned", "raised"}
    /\ \E fn \in ScoringCalls : call' = Called(fn, call.time)
    /\ UNCHANGED <<store, runs, faults, now, swept, registry, threads>>

NextScoring == Elapse \/ ModelFails \/ CheckAndReturn \/ ScoreAgain

SpecScoring == InitScoring /\ [][NextScoring]_vars

\* ------------------------------------------------------------- properties

Rows(table) == {table[i] : i \in 1..Len(table)}

Done(r) == runs[r].pc = "done"

\* The events of a run that are failed commits.
FaultEvents == {"fault_patient", "fault_audit_failed", "fault_prediction",
                "fault_audit_created", "fault_artifact", "integrity"}

\* The failed commits of the persistence step.
PersistFaults == {"fault_prediction", "fault_audit_created", "fault_artifact"}

NoStoreError(r) == runs[r].events \cap FaultEvents = {}

\* The Prediction row a run has committed, if any.
PredictionsOf(r) == {p \in Rows(predictions) : p.id = runs[r].prediction}

ArtifactsOf(r) == {x \in Rows(explainability_artifacts) : x.prediction_id = runs[r].prediction}

\* C1: a run whose binary scoring failed (and that met no store error) has
\* persisted a Prediction with status MODEL_ERROR, an INFERENCE_FAILED audit
\* entry referencing the run's model exists, and the run has no artifact row.
C1_ScoringFailureRecorded ==
    \A r \in Runs :
        (Done(r) /\ "score_failed" \in runs[r].events /\ NoStoreError(r)) =>
            /\ \E p \in PredictionsOf(r) : p.prediction_status = "MODEL_ERROR"
            /\ \E a \in Rows(audit_logs) :
                  /\ a.event_type = "INFERENCE_FAILED"
                  /\ a.reference_type = "model"
                  /\ a.reference_id = runs[r].model
            /\ ArtifactsOf(r) = {}

C1_Witness ==
    \E r \in Runs :
        /\ Done(r) /\ "score_failed" \in runs[r].events /\ NoStoreError(r)
        /\ models[runs[r].model].supports_explainability
        /\ PredictionsOf(r) # {}

\* C2: a run whose binary scoring failed ends by raising the scoring error
\* to its caller, after the MODEL_ERROR Prediction has been persisted.
C2_ScoringErrorReraised ==
    \A r \in Runs :
        (Done(r) /\ "score_failed" \in runs[r].events /\ NoStoreError(r)) =>
            /\ runs[r].outcome = "InferenceError"
            /\ \E p \in PredictionsOf(r) : p.prediction_status = "MODEL_ERROR"

\* C3: every committed Prediction row has a committed PREDICTION_CREATED
\* audit entry referencing it, in every state.
C3_PredictionAuditAtomic ==
    \A p \in Rows(predictions) :
        \E a \in Rows(audit_logs) :
            /\ a.event_type = "PREDICTION_CREATED"
            /\ a.reference_type = "prediction"
            /\ a.reference_id = p.id

\* C4: a run in which a write of the persistence step failed has raised, and
\* no Prediction or ExplainabilityArtifact row of that run is in the store.
C4_NoRowSurvivesStoreError ==
    \A r \in Runs :
        (Done(r) /\ runs[r].events \cap PersistFaults # {}) =>
            /\ runs[r].outcome = "StoreError"
            /\ PredictionsOf(r) = {}
            /\ ArtifactsOf(r) = {}

\* C5: a run whose input was rejected has raised InvalidImageError and has
\* written no Prediction row and no audit entry; no Prediction row has
\* status INPUT_INVALID.
C5_RejectionNotPersisted ==
    /\ \A r \in Runs :
          "rejected" \in runs[r].events =>
              /\ Done(r)
              /\ runs[r].outcome = "InvalidImageError"
              /\ runs[r].prediction = 0
              /\ runs[r].wrote \cap {"predictions", "audit_logs"} = {}
    /\ \A p \in Rows(predictions) : p.prediction_status # "INPUT_INVALID"

C5_Witness ==
    \E r \in Runs :
        /\ Done(r) /\ "rejected" \in runs[r].events
        /\ runs[r].outcome = "InvalidImageError"
        /\ runs[r].patient # 0 /\ runs[r].model # 0

\* C6: a run whose input was rejected has written no row to any table.
C6_RejectionWritesNothing ==
    \A r \in Runs :
        (Done(r) /\ "rejected" \in runs[r].events) => runs[r].wrote = {}

\* C7: a run that found no model of the requested type has raised the typed
\* model-not-found error and has written no Prediction row.
C7_ModelNotFoundRaised ==
    \A r \in Runs :
        (Done(r) /\ "no_model" \in runs[r].events) =>
            /\ runs[r].outcome = "ModelNotFoundError"
            /\ PredictionsOf(r) = {}

\* C8: every Prediction row has a risk_level in {LOW, MEDIUM, HIGH,
\* INCONCLUSIVE}, rows with status MODEL_ERROR included.
C8_RiskLevelAlwaysSet ==
    \A p \in Rows(predictions) : p.risk_level \in RiskLevel

C8_Witness ==
    \E p \in Rows(predictions) :
        p.prediction_status = "MODEL_ERROR" /\ p.risk_level = "INCONCLUSIVE"

\* C9: every Prediction row whose binary confidence is below 0.7 has
\* risk_level INCONCLUSIVE and status INCONCLUSIVE.
C9_LowConfidenceInconclusive ==
    \A p \in Rows(predictions) :
        (p.binary_confidence # NoneNum /\ p.binary_confidence < 70) =>
            /\ p.risk_level = "INCONCLUSIVE"
            /\ p.prediction_status = "INCONCLUSIVE"

C9_Witness ==
    \E p \in Rows(predictions) :
        /\ p.binary_result = "MALIGNANT" /\ p.binary_confidence = 60
        /\ p.prediction_status = "INCONCLUSIVE"

\* C10: for a confidence of 0.7 or more, _derive_risk_level returns the
\* stage result when there is one; otherwise HIGH for MALIGNANT at 0.85 or
\* more, MEDIUM for MALIGNANT below 0.85, LOW for BENIGN, and INCONCLUSIVE
\* for any other binary result.
C10_DeriveAboveGate ==
    (call.ret # Null /\ call.args.binary_confidence >= 70) =>
        LET a == call.args IN
        /\ a.stage_result \in StageResult => call.ret = a.stage_result
        /\ a.stage_result = Null =>
              /\ (a.binary_result = "MALIGNANT" /\ a.binary_confidence >= 85)
                    => call.ret = "HIGH"
              /\ (a.binary_result = "MALIGNANT" /\ a.binary_confidence < 85)
                    => call.ret = "MEDIUM"
              /\ a.binary_result = "BENIGN" => call.ret = "LOW"
              /\ a.binary_result \notin BinaryResult => call.ret = "INCONCLUSIVE"

C10_Witness ==
    /\ call.ret = "LOW"
    /\ call.args.stage_result = "LOW"
    /\ call.args.binary_result = "MALIGNANT"
    /\ call.args.binary_confidence = 70


C12_JustAboveFloorIsLow ==
    (call.args = 45 /\ call.ret # Null) => call.ret = "Low Risk"

\* C13: every call of get_or_create_patient returns the id of the one
\* Patient row with the call's external_ref, and every ref has been
\* answered with one id only.
C13_PatientIdempotent ==
    /\ call.args # Null =>
          /\ call.ret # 0
          /\ patients[call.ret].external_ref = call.args
          /\ Cardinality({i \in 1..Len(patients) :
                              patients[i].external_ref = call.args}) = 1
    /\ \A x \in PatientRefs : Cardinality(call.seen[x]) <= 1

C13_Witness ==
    /\ call.args = "ref_a"
    /\ call.ret = 1
    /\ Len(patients) = 3

\* C14: a delete_expired_artifacts call that returns leaves exactly the rows
\* whose expires_at is not before the sweep's time (every row expiring later
\* is retained, every row expired before is gone) and returns the number of
\* rows it deleted.
C14_SweepDeletesExpired ==
    [][(DeleteExpiredArtifacts /\ swept' # NoneNum) =>
          /\ Rows(explainability_artifacts') =
                {x \in Rows(explainability_artifacts) : ~(x.expires_at < now')}
          /\ swept' = Len(explainability_artifacts) - Len(explainability_artifacts')
      ]_vars

C14_Witness ==
    /\ swept = 1
    /\ Len(explainability_artifacts) = 1
    /\ explainability_artifacts[1].id = 2
    /\ explainability_artifacts[1].expires_at > now
    /\ Len(predictions) = 2

\* C15: no audit entry in the store has a message that carries one of the
\* sensitive keys of the sanitizer.
C15_AuditMessagesSanitized ==
    \A a \in Rows(audit_logs) :
        \A i \in 1..Len(a.message) : a.message[i] \notin sensitive_keys

\* What scoring alone makes of a Prediction row: the row of a run for the
\* same patient and model that scored the same probability.
ScoredRow(p, stage_raises) ==
    PredictionRow(p.id, Scored([EntryLocals(Null, Null) EXCEPT !.patient = p.patient_id,
                                                               !.model = p.model_id],
                               p.binary_confidence, stage_raises))

\* C16: every Prediction row of a scored run is the row scoring alone gives,
\* whether explainability generation succeeded or raised; a run whose
\* generation raised (and that met no store error) has returned without a
\* reference, with its Prediction persisted and no artifact row.
C16_ExplainabilityAdditive ==
    /\ \A p \in Rows(predictions) : p.binary_confidence # NoneNum =>
          \E stage_raises \in BOOLEAN : p = ScoredRow(p, stage_raises)
    /\ \A r \in Runs :
          (Done(r) /\ "explain_failed" \in runs[r].events /\ NoStoreError(r)) =>
              /\ runs[r].outcome = "returned"
              /\ runs[r].explainability_ref = Null
              /\ Cardinality(PredictionsOf(r)) = 1
              /\ ArtifactsOf(r) = {}

C16_Witness ==
    \E r \in Runs :
        /\ Done(r) /\ "explain_failed" \in runs[r].events /\ NoStoreError(r)
        /\ \E p \in PredictionsOf(r) :
              p.prediction_status = "SUCCESS" /\ p.binary_confidence = 85

\* C17: a run whose stage step raised after a successful scoring (and that
\* met no store error) has returned to its caller and has persisted one
\* Prediction with no stage result, whose risk_level and status are those
\* the binary result alone gives.
C17_StageFailureNonFatal ==
    \A r \in Runs :
        (Done(r) /\ "stage_failed" \in runs[r].events /\ NoStoreError(r)) =>
            /\ runs[r].outcome = "returned"
            /\ Cardinality(PredictionsOf(r)) = 1
            /\ \A p \in PredictionsOf(r) :
                  /\ p.stage_result = Null
                  /\ p.stage_confidence = NoneNum
                  /\ p.binary_result = binary_label(p.binary_confidence)
                  /\ p.risk_level = derive_risk_level(p.binary_result, p.binary_confidence, Null)
                  /\ p.prediction_status = IF p.risk_level = "INCONCLUSIVE"
                                           THEN "INCONCLUSIVE" ELSE "SUCCESS"

C17_Witness ==
    \E r \in Runs :
        /\ Done(r) /\ "stage_failed" \in runs[r].events /\ NoStoreError(r)
        /\ runs[r].outcome = "returned"
        /\ \E p \in PredictionsOf(r) : p.risk_level = "HIGH" /\ p.prediction_status = "SUCCESS"

\* C18: every ExplainabilityArtifact row belongs to a Prediction in the store
\* whose status is SUCCESS or INCONCLUSIVE and whose model supports
\* explainability, and its kind is that model's explainability method.
C18_ArtifactsOfScoredRuns ==
    \A x \in Rows(explainability_artifacts) :
        \E p \in Rows(predictions) :
            /\ p.id = x.prediction_id
            /\ p.prediction_status \in {"SUCCESS", "INCONCLUSIVE"}
            /\ models[p.model_id].supports_explainability
            /\ x.artifact_type \in ArtifactType
            /\ x.artifact_type = models[p.model_id].explainability_type

C18_Witness ==
    \E x \in Rows(explainability_artifacts) :
        /\ x.artifact_type = "attention"
        /\ \E p \in Rows(predictions) :
              p.id = x.prediction_id /\ p.prediction_status = "INCONCLUSIVE"

\* Whether a run resolved a patient and an active model and passed input
\* validation.
PastValidation(r) ==
    runs[r].patient # 0 /\ runs[r].model # 0 /\ "rejected" \notin runs[r].events

\* C19: a finished run that met no store error has written exactly one
\* Prediction row if it resolved a patient and an active model and passed
\* validation, and none otherwise; the table holds one row per run that
\* wrote one.
C19_OnePredictionPerRun ==
    /\ \A r \in Runs :
          (Done(r) /\ NoStoreError(r)) =>
              IF PastValidation(r)
              THEN "predictions" \in runs[r].wrote /\ Cardinality(PredictionsOf(r)) = 1
              ELSE "predictions" \notin runs[r].wrote /\ runs[r].prediction = 0
    /\ Len(predictions) = Cardinality({r \in Runs : "predictions" \in runs[r].wrote})
    /\ \A r, q \in Runs : (r # q /\ runs[r].prediction # 0) => runs[r].prediction # runs[q].prediction

C19_Witness ==
    \E r \in Runs :
        /\ Done(r) /\ NoStoreError(r) /\ PastValidation(r)
        /\ "score_failed" \in runs[r].events
        /\ "predictions" \in runs[r].wrote
        /\ Len(predictions) = 1

AccessorReturned(t) ==
    threads[t].pc = "returned" /\ threads[t].op \in Accessors

\* C21: as long as no reload was called and no load has failed, the loading
\* body has run at most once, every model an accessor has returned is the
\* one instance, and a call begun after the load has returned it.
C21_LoadsOnce ==
    (registry.reloads = 0 /\ registry.failed = {}) =>
        /\ registry.built <= 1
        /\ \A t \in Threads :
              AccessorReturned(t) =>
                 /\ threads[t].ret # NoneNum => threads[t].ret = registry.cnn_rnn_model
                 /\ threads[t].after_load => threads[t].ret # NoneNum
        /\ \A t, u \in Threads :
              (AccessorReturned(t) /\ AccessorReturned(u)
                 /\ threads[t].ret # NoneNum /\ threads[u].ret # NoneNum)
                 => threads[t].ret = threads[u].ret

C21_Witness ==
    /\ registry.reloads = 0 /\ registry.failed = {} /\ registry.built = 1
    /\ \E t, u \in Threads :
          /\ t # u
          /\ AccessorReturned(t) /\ AccessorReturned(u)
          /\ ~threads[t].after_load /\ ~threads[u].after_load
          /\ threads[t].op = "cnn_rnn_model" /\ threads[u].op = "vit_model"
          /\ threads[t].ret = 1 /\ threads[u].ret = 1

\* A reload_models call of thread t is under way.
Reloading(t) ==
    threads[t].op = "reload_models" /\ threads[t].pc \notin {"idle", "returned", "raised"}

\* C22: every reload_models call eventually returns, with both models loaded
\* and the lock free.
C22_ReloadReturns ==
    \A t \in Threads :
        Reloading(t) ~>
            /\ threads[t].pc = "returned"
            /\ registry.cnn_rnn_model # NoneNum /\ registry.vit_model # NoneNum
            /\ registry.lock # t

\* C23: no accessor call has returned None.
C23_AccessorNeverNone ==
    \A t \in Threads : AccessorReturned(t) => threads[t].ret # NoneNum

\* C29: an accessor call begun after a load failed has not returned an
\* instance whose loading failed.
C29_FailedLoadNotServed ==
    \A t \in Threads :
        (AccessorReturned(t) /\ threads[t].after_failure) =>
            threads[t].ret \notin registry.failed

\* C24: a scoring call whose check saw more than MAX_INFERENCE_TIME elapsed
\* has raised the timeout, a call that returned a result was checked within
\* the limit, and no other call has raised the timeout.
C24_TimeoutRaised ==
    /\ call.elapsed # NoneNum =>
          (call.outcome = "Inference timed out") = (call.elapsed > MAX_INFERENCE_TIME)
    /\ call.outcome = "result" =>
          call.elapsed # NoneNum /\ call.elapsed <= MAX_INFERENCE_TIME
    /\ call.outcome = "Inference timed out" => call.elapsed # NoneNum

C24_Witness ==
    /\ call.fn = "predict_stage"
    /\ call.outcome = "result"
    /\ call.elapsed = MAX_INFERENCE_TIME

\* The registry accessor that holds the model of a declared type.
accessor_of(model_type) ==
    IF model_type = "cnn_rnn" THEN "cnn_rnn_model" ELSE "vit_model"

\* C25: every Prediction that carries a binary result was scored by the model
\* of the declared type of the RegisteredModel the run resolved.
C25_ScoredByDeclaredType ==
    \A p \in Rows(predictions) :
        p.binary_result # Null =>
            predict_binary_model = accessor_of(models[p.model_id].model_type)

\* The StageResult that matches a bucket of the risk engine.
stage_of_bucket(bucket) ==
    IF bucket = "High Risk" THEN "HIGH"
    ELSE IF bucket = "Medium Risk" THEN "MEDIUM"
    ELSE IF bucket = "Low Risk" THEN "LOW"
    ELSE Null

\* C26: the Prediction of a run that scored on a model with supports_stage,
\* whose stage step did not raise and whose probability the risk engine put
\* in its high, medium or low bucket, carries the matching stage result and
\* a stage confidence.
C26_StageRecorded ==
    \A r \in Runs : \A p \in PredictionsOf(r) :
        (/\ Done(r)
         /\ "stage_failed" \notin runs[r].events
         /\ p.binary_result # Null
         /\ models[p.model_id].supports_stage
         /\ stage_of_bucket(calculate_risk(p.binary_confidence)) # Null)
        => /\ p.stage_result = stage_of_bucket(calculate_risk(p.binary_confidence))
           /\ p.stage_confidence # NoneNum

\* C27: every persisted Prediction whose binary result is BENIGN has risk
\* level INCONCLUSIVE and status INCONCLUSIVE.
C27_BenignInconclusive ==
    \A p \in Rows(predictions) :
        p.binary_result = "BENIGN" =>
            p.risk_level = "INCONCLUSIVE" /\ p.prediction_status = "INCONCLUSIVE"

C27_Witness ==
    \E p \in Rows(predictions) :
        /\ p.binary_result = "BENIGN"
        /\ p.binary_confidence = 30
        /\ p.risk_level = "INCONCLUSIVE"
        /\ p.prediction_status = "INCONCLUSIVE"

\* C28: on every persisted Prediction, status SUCCESS holds exactly when the
\* risk level is LOW, MEDIUM or HIGH; status INCONCLUSIVE comes with risk
\* level INCONCLUSIVE and a binary result; status MODEL_ERROR comes with risk
\* level INCONCLUSIVE and neither binary result nor binary confidence.
C28_StatusRiskConsistent ==
    \A p \in Rows(predictions) :
        /\ (p.prediction_status = "SUCCESS") = (p.risk_level \in {"LOW", "MEDIUM", "HIGH"})
        /\ p.prediction_status = "INCONCLUSIVE" =>
              p.risk_level = "INCONCLUSIVE" /\ p.binary_result # Null
        /\ p.prediction_status = "MODEL_ERROR" =>
              /\ p.risk_level = "INCONCLUSIVE"
              /\ p.binary_result = Null
              /\ p.binary_confidence = NoneNum

C28_Witness ==
    \E p \in Rows(predictions) :
        /\ p.prediction_status = "SUCCESS"
        /\ p.risk_level = "HIGH"
        /\ p.binary_result = "MALIGNANT"
        /\ p.binary_confidence = 85

\* C30: of two concurrent callers that resolve the same external_ref, both
\* return, with the id of the one Patient row of that ref.
C30_ConcurrentResolve ==
    \A c, d \in Sessions :
        (/\ c # d
         /\ call[c].pc \in {"returned", "raised"}
         /\ call[d].pc \in {"returned", "raised"}
         /\ call[c].external_ref = call[d].external_ref)
        => /\ call[c].pc = "returned"
           /\ call[d].pc = "returned"
           /\ call[c].ret = call[d].ret
           /\ Cardinality({i \in 1..Len(patients) :
                              patients[i].external_ref = call[c].external_ref}) = 1

====
